---- MODULE Spec2Model ----
(***************************************************************************)
(* Fermax Blue cloud client: the OAuth token state, the proactive and      *)
(* reactive re-authentication of get_pairings / open_door, and the loading   *)
(* of persisted tokens.  Two clients exist in the repository and           *)
(* both are modelled: FermaxBlueIntegration (fermax_integration.py, the    *)
(* client the coordinator and the buttons use) and FermaxBlueAPI           *)
(* (fermax_api.py, the client the config flow uses).  `kind` says which    *)
(* one a behaviour is about.                                               *)
(*                                                                         *)
(* Every `await` on the network is a scheduling point of the asyncio loop: *)
(* a request is sent in one step, the server's answer arrives in a second  *)
(* step, and the awaiting coroutine resumes in a third; the code between   *)
(* two awaits is one atomic step.                                          *)
(***************************************************************************)
EXTENDS Integers, FiniteSets, Sequences, TLC

\* ------------------------------------------------------------------ bounds
\* Latest instant of the clock (seconds since the start of the behaviour).
MaxNow == 1
\* Deepest nesting of get_pairings / open_door self-calls the interpreter
\* allows before it raises RecursionError.
RecursionLimit == 2
\* Pairings payloads the server can answer with are 1..NumPayloads.
NumPayloads == 1

\* --------------------------------------------------------------- constants
\* timedelta(minutes=5), in seconds.
BufferSeconds == 300
\* oauth_data.get("expires_in", 3600)
DefaultExpiresIn == 3600
\* token_expires_at = None (Optional[datetime]); also a response without
\* an expires_in field.
NoValue == -1

\* Optional[str] = None
None == "None"
Tokens == {"tokA", "tokB"}
\* The asyncio tasks of the host that may use the one client concurrently
\* (the coordinator's refresh and a button press).
Tasks == {1, 2}
\* expires_in values the token endpoint answers with (besides omitting it).
ExpiresInValues == {300}
\* self.pairings = [] ; a payload is named by a number, 0 is the empty list.
EmptyPairings == 0
Payloads == 1..NumPayloads

VARIABLES
    kind,              \* "Integration" | "API": the client class
    access_token,      \* self.access_token
    refresh_token,     \* self.refresh_token
    token_expires_at,  \* self.token_expires_at (NoValue: None)
    pairings,          \* self.pairings
    now,               \* datetime.now(tz=timezone.utc)
    fresh,             \* TRUE until the client is first used
    task               \* per asyncio task: the call it runs and where it is

vars == <<kind, access_token, refresh_token, token_expires_at, pairings,
          now, fresh, task>>

tokvars == <<access_token, refresh_token, token_expires_at>>

\* ------------------------------------------------------------- token state

\* Mutant of needs_refresh: the buffer test made strict (> for >=).
needs_refresh_strict(at, exp, t) ==
    IF at = None \/ exp = NoValue
    THEN TRUE
    ELSE t > exp - BufferSeconds

\* _needs_refresh: fermax_api.py 86-92, fermax_integration.py 67-73.
needs_refresh(at, exp, t) ==
    IF at = None \/ exp = NoValue
    THEN TRUE
    ELSE t >= exp - BufferSeconds

NeedsRefresh == needs_refresh(access_token, token_expires_at, now)

\* Mutant of expires_in_of: the expires_in of the response is not read.
expires_in_of_ignoring_response(r) == DefaultExpiresIn

\* oauth_data.get("expires_in", 3600)
expires_in_of(r) == IF r.expires_in = NoValue THEN DefaultExpiresIn ELSE r.expires_in

\* --------------------------------------------------------------- responses

\* What the token endpoint can answer: a transport failure or timeout, a
\* non-200 status, or 200 with a JSON body whose fields may be missing.
\* The server never re-issues a token: `a` and `r` are an access token and
\* a refresh token the client does not hold when the answer is made.
\* What `await response.json()` meets in the body: a JSON object ("json"),
\* a body that is not served as JSON, for which aiohttp raises
\* ContentTypeError, an aiohttp.ClientError ("text"), or a body served as
\* JSON that does not decode to an object, for which json.loads raises
\* JSONDecodeError or `.get` raises AttributeError ("garbled").
BodyForms == {"json", "text", "garbled"}

\* A request that gets no answer: asyncio.TimeoutError after DEFAULT_TIMEOUT
\* seconds, or an aiohttp.ClientError of the transport.
Failures == {"timeout", "transport"}

NoBody == [access_token |-> None, refresh_token |-> None, expires_in |-> NoValue]

TokenResponse(a, r) ==
    { [kind |-> k, status |-> 0, body |-> "none"] @@ NoBody : k \in Failures }
    \cup { [kind |-> "http", status |-> 500, body |-> "text"] @@ NoBody }
    \cup { [kind |-> "http", status |-> s, body |-> b] @@ NoBody :
              s \in {400, 401}, b \in BodyForms }
    \cup { [kind |-> "http", status |-> 200, body |-> b] @@ NoBody :
              b \in BodyForms \ {"json"} }
    \cup { [kind |-> "http", status |-> 200, body |-> "json", access_token |-> x,
            refresh_token |-> y, expires_in |-> e] :
              x \in {None, a}, y \in {None, r},
              e \in {NoValue} \cup ExpiresInValues }

FreshToken(held) == CHOOSE x \in Tokens : x # held

\* The open-door answer's free-text body, by what the indicator lists find
\* in it: a success indicator, an error indicator, both or neither.
DoorBodies == { [aff |-> a, neg |-> n] : a \in BOOLEAN, n \in BOOLEAN }
NoDoorBody == [aff |-> FALSE, neg |-> FALSE]

ApiResponse(op) ==
    { [kind |-> k, status |-> 0, payload |-> EmptyPairings, body |-> NoDoorBody] :
          k \in Failures }
    \cup { [kind |-> "http", status |-> s, payload |-> EmptyPairings, body |-> NoDoorBody] :
              s \in {401, 500} }
    \cup IF op = "get_pairings"
         THEN { [kind |-> "http", status |-> 200, payload |-> p, body |-> NoDoorBody] :
                  p \in Payloads }
         ELSE { [kind |-> "http", status |-> 200, payload |-> EmptyPairings, body |-> b] :
                  b \in DoorBodies }

NoResponse == [kind |-> "none"]

\* ------------------------------------------------------------------- tasks

\* op     the public operation the task runs
\* pc     idle | auth_wait | auth_got | refresh_wait | refresh_got |
\*        api_wait | api_got | save_wait | done
\* cont   why a token exchange runs: "direct" (the operation itself),
\*        "ensure" (before the request), "retry" (after a 401),
\*        "host_auth" (the authenticate() a host-facing operation makes
\*        before it asks for the pairings)
\* stage  which authenticate() call of refresh_auth it is: "plain" (not under
\*        refresh_auth's try), "inner" (line 202, inside the try), "outer"
\*        (line 207, in the except handler)
\* depth  nesting of self-calls of get_pairings / open_door
\* inbox  the response that arrived and is not yet handled
\* result what the call returned or raised
\* sent   API requests (GET / POST) this call has sent
\* n401   401 answers this call has received
\* reauths  authenticate() / refresh_auth() calls this call has made since
\*        its first 401
\* bearer the access token of the last API request's Authorization header
\* detail the message of the exception the call raised, and the HTTP status
\*        the message quotes
\* value  what get_door_devices / get_home_info returned
\* host   the host-facing operation the call runs in ("none": the client's
\*        method is called directly): update_data, _async_update_data,
\*        setup_integration, async_press, config_flow
\* outcome  what the host-facing operation returned or raised
\* saved  the record the call last handed to Store.async_save
NoDetail == [msg |-> "none", status |-> NoValue]

IdleTask ==
    [op |-> "idle", pc |-> "idle", cont |-> "direct", stage |-> "plain",
     depth |-> 0, inbox |-> NoResponse, result |-> "none", payload |-> EmptyPairings,
     sent |-> 0, n401 |-> 0, reauths |-> 0, bearer |-> None, detail |-> NoDetail,
     value |-> <<>>, host |-> "none", outcome |-> "none",
     saved |-> [form |-> "empty"]]

\* The message of an exception; `status` is the response status it quotes.
ErrorDetail(msg, status) == [msg |-> msg, status |-> status]

\* The messages of the handlers that end authenticate / get_pairings /
\* open_door of FermaxBlueAPI when a request gets no answer.
failure_detail(k) ==
    IF k = "timeout"
    THEN ErrorDetail("Request timed out", NoValue)
    ELSE ErrorDetail("Cannot connect to Fermax Blue API", NoValue)

\* ------------------------------------------------- requests and results

\* session.post(OAUTH_URL, grant_type=password): the request is sent and
\* the coroutine waits for the answer.
SendAuth(tk, cont, stage) ==
    [tk EXCEPT !.pc = "auth_wait", !.cont = cont, !.stage = stage,
               !.inbox = NoResponse, !.detail = NoDetail]

\* session.post(OAUTH_URL, grant_type=refresh_token)
SendRefresh(tk, cont) ==
    [tk EXCEPT !.pc = "refresh_wait", !.cont = cont, !.stage = "plain",
               !.inbox = NoResponse, !.detail = NoDetail]

\* session.get(PAIRINGS_URL) / session.post(.../directed-opendoor) with the
\* Bearer header of the token held when it is sent.
SendApi(tk, at) ==
    [tk EXCEPT !.pc = "api_wait", !.inbox = NoResponse, !.sent = @ + 1,
               !.bearer = at, !.detail = NoDetail]

\* The call returns `res` (with payload `p` when it returns a list) or
\* raises the exception `res` names.
Finish(tk, res, p) ==
    [tk EXCEPT !.pc = "done", !.inbox = NoResponse, !.result = res, !.payload = p]

\* The call raises exception class `err` with the message `detail`.
Raise(tk, err, detail) ==
    [Finish(tk, err, EmptyPairings) EXCEPT !.detail = detail]

\* Mutant of GiveUp: the failure is raised, not returned.
GiveUpRaising(tk) == Raise(tk, "ConnError", NoDetail)

\* What FermaxBlueIntegration returns where it gives up: `return []` in
\* get_pairings, `return False` in open_door.
GiveUp(tk) ==
    IF tk.op = "get_pairings"
    THEN Finish(tk, "list", EmptyPairings)
    ELSE Finish(tk, "False", EmptyPairings)

\* Bookkeeping: the call is about to run authenticate() / refresh_auth().
Reauth(tk) == [tk EXCEPT !.reauths = IF tk.n401 > 0 THEN @ + 1 ELSE @]

\* Mutant of refresh_auth_begin: the refresh_token grant is sent whether a
\* refresh token is held or not.
refresh_auth_begin_always_grant(tk, cont, rt) == SendRefresh(tk, cont)

\* refresh_auth up to its first await: without a refresh token it is
\* authenticate(), else the refresh_token grant is sent.
refresh_auth_begin(tk, cont, rt) ==
    IF rt = None
    THEN SendAuth(tk, cont, "plain")
    ELSE SendRefresh(tk, cont)

\* get_pairings / open_door up to the first await: the token check, and
\* either a token exchange or the API request itself.
\* Mutant of ensure_begin_integration: `and` for `or` in the token check.
ensure_begin_integration_and(tk, at, rt, exp, t) ==
    IF at = None /\ needs_refresh(at, exp, t)
    THEN SendAuth(Reauth(tk), "ensure", "plain")
    ELSE SendApi(tk, at)

\* Mutant of ensure_begin_integration: a held refresh token is used, as in
\* FermaxBlueAPI._ensure_auth.
ensure_begin_integration_refreshing(tk, at, rt, exp, t) ==
    IF at = None \/ needs_refresh(at, exp, t)
    THEN IF rt # None
         THEN SendRefresh(Reauth(tk), "ensure")
         ELSE SendAuth(Reauth(tk), "ensure", "plain")
    ELSE SendApi(tk, at)

ensure_begin_integration(tk, at, rt, exp, t) ==
    IF at = None \/ needs_refresh(at, exp, t)
    THEN SendAuth(Reauth(tk), "ensure", "plain")
    ELSE SendApi(tk, at)

ensure_begin_api(tk, at, rt, exp, t) ==
    IF needs_refresh(at, exp, t)
    THEN IF rt # None
         THEN refresh_auth_begin(Reauth(tk), "ensure", rt)
         ELSE SendAuth(Reauth(tk), "ensure", "plain")
    ELSE SendApi(tk, at)

ensure_begin(k, tk, at, rt, exp, t) ==
    IF k = "Integration"
    THEN ensure_begin_integration(tk, at, rt, exp, t)
    ELSE ensure_begin_api(tk, at, rt, exp, t)

\* `return await self.get_pairings()` / `return await self.open_door(...)`:
\* the operation calls itself, one frame deeper.  Past the interpreter's
\* limit the call raises RecursionError, which the calling frame's
\* `except Exception` turns into [] / False (Integration) or into
\* FermaxBlueAPIError (API).
self_call(k, tk, at, rt, exp, t) ==
    IF tk.depth >= RecursionLimit
    THEN IF k = "Integration"
         THEN GiveUp(tk)
         ELSE Raise(tk, "APIError", ErrorDetail("Unknown error occurred", NoValue))
    ELSE ensure_begin(k, [tk EXCEPT !.depth = @ + 1], at, rt, exp, t)

\* ------------------------------------------------------- persisted tokens

\* Expiry instants an earlier run may have stored.
StoredInstants == {301}

\* A stored token_expires_at: missing, a string fromisoformat rejects, or
\* the isoformat() of an instant.
StoredExpiries ==
    { [form |-> "none", t |-> NoValue], [form |-> "bad", t |-> NoValue] }
    \cup { [form |-> "iso", t |-> e] : e \in StoredInstants }

\* What Store.async_load() can return: nothing, or the record of an
\* earlier run.
StoredData ==
    { [form |-> "empty"] }
    \cup { [form |-> "record", access_token |-> a, refresh_token |-> r,
            token_expires_at |-> e] :
              a \in {None, "tokA"}, r \in {None, "tokA"}, e \in StoredExpiries }

\* Mutant of save_tokens: the refresh token is not written.
save_tokens_without_refresh(at, rt, exp) ==
    [form |-> "record", access_token |-> at, refresh_token |-> None,
     token_expires_at |-> IF exp # NoValue
                          THEN [form |-> "iso", t |-> exp]
                          ELSE [form |-> "none", t |-> NoValue]]

\* FermaxBlueCoordinator.save_tokens: the record handed to Store.async_save;
\* the expiry is written as its isoformat() string, or None without one.
save_tokens(at, rt, exp) ==
    [form |-> "record", access_token |-> at, refresh_token |-> rt,
     token_expires_at |-> IF exp # NoValue
                          THEN [form |-> "iso", t |-> exp]
                          ELSE [form |-> "none", t |-> NoValue]]

\* FermaxBlueCoordinator.load_tokens on the loaded record: the two tokens
\* are assigned first; the expiry is assigned when the record has one and
\* datetime.fromisoformat accepts it (its exception is logged and dropped).
load_tokens(data, at, rt, exp) ==
    IF data.form = "empty"
    THEN [at |-> at, rt |-> rt, exp |-> exp]
    ELSE [at |-> data.access_token, rt |-> data.refresh_token,
          exp |-> IF data.token_expires_at.form = "iso"
                  THEN data.token_expires_at.t
                  ELSE exp]

\* -------------------------------------------------------------- authenticate

\* Mutant of authenticate_integration: the refresh token of the answer is
\* not stored.
authenticate_integration_keeps_refresh(r, at, rt, exp, t) ==
    IF r.kind = "http" /\ r.status = 200 /\ r.body = "json"
    THEN [at |-> r.access_token, rt |-> rt,
          exp |-> t + expires_in_of(r), out |-> "True", err |-> NoDetail]
    ELSE [at |-> at, rt |-> rt, exp |-> exp, out |-> "False", err |-> NoDetail]

\* FermaxBlueIntegration.authenticate on the answer r at time t: every
\* exception, that of response.json() included, is logged and False is
\* returned.
authenticate_integration(r, at, rt, exp, t) ==
    IF r.kind = "http" /\ r.status = 200 /\ r.body = "json"
    THEN [at |-> r.access_token, rt |-> r.refresh_token,
          exp |-> t + expires_in_of(r), out |-> "True", err |-> NoDetail]
    ELSE [at |-> at, rt |-> rt, exp |-> exp, out |-> "False", err |-> NoDetail]

\* What FermaxBlueAPI.authenticate raises when `await response.json()`
\* fails on body form b: ContentTypeError is caught as aiohttp.ClientError,
\* anything else by `except Exception`.
json_failure(b) == IF b = "text" THEN "ConnError" ELSE "APIError"

json_failure_detail(b) ==
    IF b = "text"
    THEN ErrorDetail("Cannot connect to Fermax Blue API", NoValue)
    ELSE ErrorDetail("Unknown error occurred", NoValue)

\* Mutant of authenticate_api: a status other than 200, 400 and 401 is
\* reported as invalid credentials.
authenticate_api_all_invalid(r, at, rt, exp, t) ==
    [at |-> at, rt |-> rt, exp |-> exp, out |-> "AuthError",
     err |-> ErrorDetail("Invalid authentication credentials", NoValue)]

\* FermaxBlueAPI.authenticate on the answer r at time t.
authenticate_api(r, at, rt, exp, t) ==
    IF r.kind # "http"
    THEN [at |-> at, rt |-> rt, exp |-> exp, out |-> "ConnError",
          err |-> failure_detail(r.kind)]
    ELSE IF r.status = 200
    THEN IF r.body # "json"
         THEN [at |-> at, rt |-> rt, exp |-> exp, out |-> json_failure(r.body),
               err |-> json_failure_detail(r.body)]
         ELSE IF r.access_token # None
         THEN [at |-> r.access_token, rt |-> r.refresh_token,
               exp |-> t + expires_in_of(r), out |-> "True", err |-> NoDetail]
         ELSE [at |-> r.access_token, rt |-> r.refresh_token,
               exp |-> exp, out |-> "AuthError",
               err |-> ErrorDetail("No access token received", NoValue)]
    ELSE IF r.status = 400 \/ r.status = 401
    THEN IF r.body # "json"
         THEN [at |-> at, rt |-> rt, exp |-> exp, out |-> json_failure(r.body),
               err |-> json_failure_detail(r.body)]
         ELSE [at |-> at, rt |-> rt, exp |-> exp, out |-> "AuthError",
               err |-> ErrorDetail("Invalid authentication credentials", NoValue)]
    ELSE [at |-> at, rt |-> rt, exp |-> exp, out |-> "ConnError",
          err |-> ErrorDetail("HTTP", r.status)]

authenticate(k, r, at, rt, exp, t) ==
    IF k = "Integration"
    THEN authenticate_integration(r, at, rt, exp, t)
    ELSE authenticate_api(r, at, rt, exp, t)

\* FermaxBlueAPI.refresh_auth on the answer r to its refresh_token grant:
\* 200 stores the new pair; any other status calls authenticate() inside
\* the try block ("inner"); a transport failure, or a 200 body that
\* response.json() rejects, calls it from the except handler ("outer").
refresh_auth_response(r, at, rt, exp, t) ==
    IF r.kind # "http"
    THEN [at |-> at, rt |-> rt, exp |-> exp, out |-> "outer"]
    ELSE IF r.status = 200
    THEN IF r.body # "json"
         THEN [at |-> at, rt |-> rt, exp |-> exp, out |-> "outer"]
         ELSE [at |-> r.access_token,
               rt |-> IF r.refresh_token # None THEN r.refresh_token ELSE rt,
               exp |-> t + expires_in_of(r), out |-> "True"]
    ELSE [at |-> at, rt |-> rt, exp |-> exp, out |-> "inner"]

\* `await self.save_tokens()` of _async_update_data: the record is built
\* from the TokenState of the moment and the coroutine waits for
\* Store.async_save.
AwaitSave(tk, at, rt, exp) ==
    [tk EXCEPT !.pc = "save_wait", !.inbox = NoResponse,
               !.saved = save_tokens(at, rt, exp)]

\* Where the caller goes on once a token exchange returned TRUE.  The
\* coordinator saves the tokens its authenticate() obtained before it
\* updates the data.
after_auth_ok(k, tk, at, rt, exp, t) ==
    CASE tk.cont = "direct" -> Finish(tk, "True", EmptyPairings)
      [] tk.cont = "ensure" -> SendApi(tk, at)
      [] tk.cont = "retry"  -> self_call(k, tk, at, rt, exp, t)
      [] tk.cont = "host_auth" ->
            IF tk.host = "_async_update_data"
            THEN AwaitSave(tk, at, rt, exp)
            ELSE ensure_begin(k, [tk EXCEPT !.op = "get_pairings", !.cont = "direct"],
                              at, rt, exp, t)

\* Where the caller goes on once authenticate() returned `out`, or raised
\* `out` with the message `err`.
after_auth(k, tk, out, err, at, rt, exp, t) ==
    IF out = "True"
    THEN after_auth_ok(k, tk, at, rt, exp, t)
    ELSE IF k = "Integration"
    THEN IF tk.cont \in {"direct", "host_auth"}
         THEN Finish(tk, "False", EmptyPairings)
         ELSE GiveUp(tk)
    ELSE IF tk.stage = "inner"
    THEN SendAuth(tk, tk.cont, "outer")
    ELSE Raise(tk, out, err)

\* ------------------------------------------------- host-facing operations

\* update_data: awaits get_pairings, drops what it returns and returns True;
\* it returns False when get_pairings raises, which FermaxBlueIntegration's
\* never does.
update_data_result(tk) ==
    IF tk.result \in {"AuthError", "ConnError", "APIError"} THEN "False" ELSE "True"

\* FermaxBlueCoordinator._async_update_data: UpdateFailed when its own
\* authenticate() returned False; else it awaits update_data, drops what it
\* returns and returns self.integration.pairings.
async_update_data_result(tk) ==
    IF tk.op = "authenticate" THEN "UpdateFailed" ELSE "data"

\* Mutant of setup_integration_result: False when get_pairings came back
\* empty-handed.
setup_integration_result_strict(tk) ==
    IF tk.op = "authenticate" \/ tk.payload = EmptyPairings THEN "False" ELSE "True"

\* setup_integration: False when its authenticate() returned False; else it
\* awaits get_pairings, drops what it returns and returns True.
setup_integration_result(tk) ==
    IF tk.op = "authenticate" THEN "False" ELSE "True"

\* Mutant of async_press_result: the press ends normally whatever open_door
\* returned.
async_press_result_always_ok(tk) == "ok"

\* FermaxBlueDoorButton.async_press: HomeAssistantError unless open_door
\* returned True.
async_press_result(tk) ==
    IF tk.result = "True" THEN "ok" ELSE "HomeAssistantError"

\* validate_input and async_step_user: FermaxBlueAuthError of authenticate
\* becomes the form error invalid_auth, FermaxBlueConnectionError becomes
\* cannot_connect; any other exception of authenticate makes validate_input
\* return its default response, and an exception of get_pairings is dropped:
\* in both cases, as after a clean run, the entry is created.
config_flow_result(tk) ==
    IF tk.op = "authenticate" /\ tk.result = "AuthError"
    THEN "invalid_auth"
    ELSE IF tk.op = "authenticate" /\ tk.result = "ConnError"
    THEN "cannot_connect"
    ELSE "entry"

\* The client method returned or raised inside a host-facing operation: the
\* operation goes on to its own end without another await on the network.
\* _async_update_data saves the tokens once update_data has returned.
host_return(tk, at, rt, exp) ==
    IF tk.pc # "done" \/ tk.host = "none"
    THEN tk
    ELSE IF tk.host = "_async_update_data" /\ tk.op = "get_pairings"
    THEN AwaitSave(tk, at, rt, exp)
    ELSE [tk EXCEPT !.outcome =
            CASE tk.host = "update_data" -> update_data_result(tk)
              [] tk.host = "_async_update_data" -> async_update_data_result(tk)
              [] tk.host = "setup_integration" -> setup_integration_result(tk)
              [] tk.host = "async_press" -> async_press_result(tk)
              [] tk.host = "config_flow" -> config_flow_result(tk)]

\* ------------------------------------------------------- the API requests

\* Mutant of on_401: a 401 ends the call.
on_401_giving_up(k, tk, rt) ==
    IF k = "Integration"
    THEN GiveUp(tk)
    ELSE Raise(tk, "AuthError", ErrorDetail("Failed to refresh authentication", NoValue))

\* The 401 branch: the client re-authenticates and, on success, calls
\* itself again.  FermaxBlueIntegration uses authenticate(), FermaxBlueAPI
\* uses refresh_auth().
on_401(k, tk, rt) ==
    LET tk1 == Reauth([tk EXCEPT !.n401 = @ + 1])
    IN IF k = "Integration"
       THEN SendAuth(tk1, "retry", "plain")
       ELSE refresh_auth_begin(tk1, "retry", rt)

\* Mutant of door_result: FermaxBlueIntegration looks for an error
\* indicator first.
door_result_negative_first(k, body) ==
    IF k = "Integration"
    THEN IF body.neg THEN "False" ELSE "True"
    ELSE "True"

\* open_door's reading of a 200 body.  FermaxBlueIntegration looks for a
\* success indicator first, then for an error indicator; FermaxBlueAPI
\* returns True on both of its branches.
door_result(k, body) ==
    IF k = "Integration"
    THEN IF body.aff THEN "True" ELSE IF body.neg THEN "False" ELSE "True"
    ELSE "True"

\* get_pairings resumes with the answer r to its GET.
get_pairings_response(k, tk, r, rt) ==
    IF r.kind # "http"
    THEN IF k = "Integration"
         THEN GiveUp(tk)
         ELSE Raise(tk, "ConnError", failure_detail(r.kind))
    ELSE IF r.status = 200
    THEN Finish(tk, "list", r.payload)
    ELSE IF r.status = 401
    THEN on_401(k, tk, rt)
    ELSE IF k = "Integration"
    THEN GiveUp(tk)
    ELSE Raise(tk, "ConnError", ErrorDetail("HTTP", r.status))

\* Mutant of open_door_response: FermaxBlueAPI retries after a request
\* that got no answer.
open_door_response_retrying(k, tk, r, rt) ==
    IF r.kind # "http"
    THEN IF k = "Integration"
         THEN GiveUp(tk)
         ELSE SendApi(tk, tk.bearer)
    ELSE IF r.status = 200
    THEN Finish(tk, door_result(k, r.body), EmptyPairings)
    ELSE IF r.status = 401
    THEN on_401(k, tk, rt)
    ELSE IF k = "Integration"
    THEN GiveUp(tk)
    ELSE Raise(tk, "APIError", ErrorDetail("Door open failed with status", r.status))

\* open_door resumes with the answer r to its POST.
open_door_response(k, tk, r, rt) ==
    IF r.kind # "http"
    THEN IF k = "Integration"
         THEN GiveUp(tk)
         ELSE Raise(tk, "ConnError", failure_detail(r.kind))
    ELSE IF r.status = 200
    THEN Finish(tk, door_result(k, r.body), EmptyPairings)
    ELSE IF r.status = 401
    THEN on_401(k, tk, rt)
    ELSE IF k = "Integration"
    THEN GiveUp(tk)
    ELSE Raise(tk, "APIError", ErrorDetail("Door open failed with status", r.status))

\* ------------------------------------------------- pairings and doors

\* A JSON object is a function from its keys; {} has none.
EmptyObject == [k \in {} |-> k]

\* d.get(k, default)
dict_get(d, k, default) == IF k \in DOMAIN d THEN d[k] ELSE default

\* The forms of a door entry of an accessDoorMap: each of title, visible
\* and accessId may be missing; an accessId may lack fields.
TitleForms == << EmptyObject, [title |-> "Main"] >>

VisibleForms == << EmptyObject, [visible |-> TRUE], [visible |-> FALSE] >>

AccessIdForms ==
    << EmptyObject,
       [accessId |-> [block |-> 1]],
       [accessId |-> [block |-> 1, subblock |-> 0, number |-> 5]],
       [accessId |-> [block |-> 2, subblock |-> 1, number |-> 6]] >>

NumEntryForms == Len(TitleForms) * Len(VisibleForms) * Len(AccessIdForms)

\* The c-th door entry, c in 1..NumEntryForms.
DoorEntry(c) ==
    LET n == c - 1
    IN TitleForms[(n % Len(TitleForms)) + 1]
       @@ VisibleForms[((n \div Len(TitleForms)) % Len(VisibleForms)) + 1]
       @@ AccessIdForms[(n \div (Len(TitleForms) * Len(VisibleForms))) + 1]

\* An accessDoorMap with up to two entries, under the keys "1" and "2", in
\* the order of dict.items(); entry code 0 is "no such key".
AccessDoorMap(c1, c2) ==
    (IF c1 = 0 THEN <<>> ELSE << [key |-> "1", data |-> DoorEntry(c1)] >>)
    \o (IF c2 = 0 THEN <<>> ELSE << [key |-> "2", data |-> DoorEntry(c2)] >>)

TagForms == << EmptyObject, [tag |-> "Lobby"] >>

HomeForms == << EmptyObject, [home |-> "Casa"] >>

\* A second intercom of the account.
OtherPairing ==
    [id |-> "P2", deviceId |-> "D2", tag |-> "Garage", home |-> "Casa",
     accessDoorMap |->
        << [key |-> "1",
            data |-> [title |-> "Gate",
                      accessId |-> [block |-> 3, subblock |-> 0, number |-> 1]]] >>]

\* Payload ids of the pairings lists get_door_devices is checked on.
NumDoorPayloads ==
    Len(TagForms) * Len(HomeForms) * 2 * (NumEntryForms + 1) * (NumEntryForms + 1)

DoorPayloads == 0..NumDoorPayloads

\* The JSON list that payload id p stands for: 0 is [], and p > 0 is a list
\* of one or two pairings whose first has the tag, home and door entries
\* that the digits of p - 1 select.
PairingsOf(p) ==
    IF p = EmptyPairings
    THEN <<>>
    ELSE LET n  == (p - 1) % NumDoorPayloads
             tg == n % Len(TagForms)
             n1 == n \div Len(TagForms)
             hm == n1 % Len(HomeForms)
             n2 == n1 \div Len(HomeForms)
             two == n2 % 2
             n3 == n2 \div 2
             c1 == n3 % (NumEntryForms + 1)
             c2 == n3 \div (NumEntryForms + 1)
             first == [id |-> "P1", deviceId |-> "D1",
                       accessDoorMap |-> AccessDoorMap(c1, c2)]
                      @@ TagForms[tg + 1] @@ HomeForms[hm + 1]
         IN IF two = 1 THEN << first, OtherPairing >> ELSE << first >>

\* AccessId(block=..., subblock=..., number=...) of a door entry.
access_id_of(door_data) ==
    LET a == dict_get(door_data, "accessId", EmptyObject)
    IN [block |-> dict_get(a, "block", 0),
        subblock |-> dict_get(a, "subblock", 0),
        number |-> dict_get(a, "number", 0)]

\* The dict get_door_devices appends for one visible entry.
\* FermaxBlueIntegration names the door "<tag> <title>", FermaxBlueAPI
\* names it "<title>".
door_of(k, pairing, door_key, door_data) ==
    LET device_id == dict_get(pairing, "deviceId", None)
        device_name == dict_get(pairing, "tag", "Telefonillo")
        door_name == dict_get(door_data, "title", "Door " \o door_key)
        common == [id |-> device_id \o "_" \o door_key,
                   device_id |-> device_id,
                   access_id |-> access_id_of(door_data),
                   pairing_tag |-> dict_get(pairing, "tag", ""),
                   home |-> dict_get(pairing, "home", "")]
    IN IF k = "Integration"
       THEN common @@ [name |-> device_name \o " " \o door_name,
                       device_name |-> device_name, door_name |-> door_name]
       ELSE common @@ [name |-> door_name]

\* The inner loop of get_door_devices over access_door_map.items().
RECURSIVE doors_of_map(_, _, _)
doors_of_map(k, pairing, m) ==
    IF m = <<>>
    THEN <<>>
    ELSE (IF dict_get(Head(m).data, "visible", TRUE)
          THEN << door_of(k, pairing, Head(m).key, Head(m).data) >>
          ELSE <<>>)
         \o doors_of_map(k, pairing, Tail(m))

\* get_door_devices over the pairings list ps.
RECURSIVE get_door_devices(_, _)
get_door_devices(k, ps) ==
    IF ps = <<>>
    THEN <<>>
    ELSE doors_of_map(k, Head(ps), dict_get(Head(ps), "accessDoorMap", <<>>))
         \o get_door_devices(k, Tail(ps))

\* Mutant of get_home_info: the last pairing is read, not the first.
get_home_info_of_last(ps) ==
    IF ps = <<>>
    THEN [id |-> "unknown", name |-> "Fermax Blue Home", address |-> ""]
    ELSE [id |-> dict_get(ps[Len(ps)], "id", "unknown"),
          name |-> dict_get(ps[Len(ps)], "home", "Fermax Blue Home"),
          address |-> dict_get(ps[Len(ps)], "address", "")]

\* get_home_info over the pairings list ps.
get_home_info(ps) ==
    IF ps = <<>>
    THEN [id |-> "unknown", name |-> "Fermax Blue Home", address |-> ""]
    ELSE [id |-> dict_get(ps[1], "id", "unknown"),
          name |-> dict_get(ps[1], "home", "Fermax Blue Home"),
          address |-> dict_get(ps[1], "address", "")]

Init ==
    /\ kind \in {"Integration", "API"}
    /\ access_token = None
    /\ refresh_token = None
    /\ token_expires_at = NoValue
    /\ pairings = EmptyPairings
    /\ now = 0
    /\ fresh = TRUE
    /\ task = [t \in Tasks |-> IdleTask]

\* ------------------------------------------------------------------ actions

\* The host calls authenticate() directly (setup_integration, the config
\* flow's validate_input, the test scripts).
StartAuthenticate(t) ==
    /\ task[t].pc = "idle"
    /\ task' = [task EXCEPT ![t] = SendAuth([IdleTask EXCEPT !.op = "authenticate"],
                                            "direct", "plain")]
    /\ fresh' = FALSE
    /\ UNCHANGED <<kind, access_token, refresh_token, token_expires_at,
                   pairings, now>>

\* The host calls FermaxBlueAPI.refresh_auth() directly.
StartRefreshAuth(t) ==
    /\ task[t].pc = "idle"
    /\ kind = "API"
    /\ task' = [task EXCEPT ![t] =
                  refresh_auth_begin([IdleTask EXCEPT !.op = "refresh_auth"],
                                     "direct", refresh_token)]
    /\ fresh' = FALSE
    /\ UNCHANGED <<kind, access_token, refresh_token, token_expires_at,
                   pairings, now>>

\* The host calls get_pairings() or open_door().
StartCall(t, op) ==
    /\ task[t].pc = "idle"
    /\ task' = [task EXCEPT ![t] =
                  ensure_begin(kind, [IdleTask EXCEPT !.op = op],
                               access_token, refresh_token, token_expires_at, now)]
    /\ fresh' = FALSE
    /\ UNCHANGED <<kind, access_token, refresh_token, token_expires_at,
                   pairings, now>>

\* The token endpoint answers a pending exchange with one of `answers`.
TokenReplyFrom(t, answers) ==
    /\ task[t].pc \in {"auth_wait", "refresh_wait"}
    /\ \E r \in answers :
          task' = [task EXCEPT ![t].inbox = r,
                               ![t].pc = IF task[t].pc = "auth_wait"
                                         THEN "auth_got" ELSE "refresh_got"]
    /\ UNCHANGED <<kind, access_token, refresh_token, token_expires_at,
                   pairings, now, fresh>>

TokenReply(t) ==
    TokenReplyFrom(t, TokenResponse(FreshToken(access_token), FreshToken(refresh_token)))

\* authenticate() resumes with the answer to its password grant.
AuthHandle(t) ==
    /\ task[t].pc = "auth_got"
    /\ LET e == authenticate(kind, task[t].inbox, access_token, refresh_token,
                             token_expires_at, now)
       IN /\ access_token' = e.at
          /\ refresh_token' = e.rt
          /\ token_expires_at' = e.exp
          /\ task' = [task EXCEPT ![t] =
                        host_return(after_auth(kind, task[t], e.out, e.err,
                                               e.at, e.rt, e.exp, now),
                                    e.at, e.rt, e.exp)]
    /\ UNCHANGED <<kind, pairings, now, fresh>>

\* refresh_auth() resumes with the answer to its refresh_token grant.
RefreshHandle(t) ==
    /\ task[t].pc = "refresh_got"
    /\ LET e == refresh_auth_response(task[t].inbox, access_token, refresh_token,
                                      token_expires_at, now)
       IN /\ access_token' = e.at
          /\ refresh_token' = e.rt
          /\ token_expires_at' = e.exp
          /\ task' = [task EXCEPT ![t] =
                        IF e.out = "True"
                        THEN host_return(after_auth_ok(kind, task[t], e.at, e.rt,
                                                       e.exp, now),
                                         e.at, e.rt, e.exp)
                        ELSE SendAuth(task[t], task[t].cont, e.out)]
    /\ UNCHANGED <<kind, pairings, now, fresh>>

\* The API answers a pending GET / POST with one of `answers`.
ApiReplyFrom(t, answers) ==
    /\ task[t].pc = "api_wait"
    /\ \E r \in answers :
          task' = [task EXCEPT ![t].inbox = r, ![t].pc = "api_got"]
    /\ UNCHANGED <<kind, access_token, refresh_token, token_expires_at,
                   pairings, now, fresh>>

ApiReply(t) == ApiReplyFrom(t, ApiResponse(task[t].op))

\* Mutant of ApiHandle: a get_pairings that does not get 200 empties the
\* stored pairings.
ApiHandleClearing(t) ==
    /\ task[t].pc = "api_got"
    /\ LET r == task[t].inbox
       IN /\ task' = [task EXCEPT ![t] = host_return(
                        IF task[t].op = "get_pairings"
                        THEN get_pairings_response(kind, task[t], r, refresh_token)
                        ELSE open_door_response(kind, task[t], r, refresh_token),
                        access_token, refresh_token, token_expires_at)]
          /\ pairings' = IF task[t].op = "get_pairings"
                         THEN IF r.kind = "http" /\ r.status = 200
                              THEN r.payload
                              ELSE EmptyPairings
                         ELSE pairings
    /\ UNCHANGED <<kind, access_token, refresh_token, token_expires_at, now, fresh>>

\* get_pairings / open_door resumes with the answer to its request.
ApiHandle(t) ==
    /\ task[t].pc = "api_got"
    /\ LET r == task[t].inbox
       IN /\ task' = [task EXCEPT ![t] = host_return(
                        IF task[t].op = "get_pairings"
                        THEN get_pairings_response(kind, task[t], r, refresh_token)
                        ELSE open_door_response(kind, task[t], r, refresh_token),
                        access_token, refresh_token, token_expires_at)]
          /\ pairings' = IF task[t].op = "get_pairings" /\ r.kind = "http" /\ r.status = 200
                         THEN r.payload
                         ELSE pairings
    /\ UNCHANGED <<kind, access_token, refresh_token, token_expires_at, now, fresh>>

\* async_setup_entry: the coordinator loads the stored tokens into the new
\* client before its first refresh.
LoadTokens ==
    /\ kind = "Integration"
    /\ fresh
    /\ \E data \in StoredData :
          LET e == load_tokens(data, access_token, refresh_token, token_expires_at)
          IN /\ access_token' = e.at
             /\ refresh_token' = e.rt
             /\ token_expires_at' = e.exp
    /\ fresh' = FALSE
    /\ UNCHANGED <<kind, pairings, now, task>>

\* The clock advances between any two steps.
Tick ==
    /\ now < MaxNow
    /\ now' = now + 1
    /\ UNCHANGED <<kind, access_token, refresh_token, token_expires_at,
                   pairings, fresh, task>>

\* The caller takes the result; the task is free for the next call.
Return(t) ==
    /\ task[t].pc = "done"
    /\ task' = [task EXCEPT ![t] = IdleTask]
    /\ UNCHANGED <<kind, access_token, refresh_token, token_expires_at,
                   pairings, now, fresh>>

\* The host runs one operation at a time, on task MainTask.
MainTask == CHOOSE t \in Tasks : \A u \in Tasks : t <= u

TaskStep(t) ==
    \/ StartAuthenticate(t)
    \/ StartRefreshAuth(t)
    \/ \E op \in {"get_pairings", "open_door"} : StartCall(t, op)
    \/ TokenReply(t)
    \/ AuthHandle(t)
    \/ RefreshHandle(t)
    \/ ApiReply(t)
    \/ ApiHandle(t)
    \/ Return(t)

Next ==
    \/ Tick
    \/ LoadTokens
    \/ TaskStep(MainTask)

Spec == Init /\ [][Next]_vars

\* The host runs operations concurrently on the one client: every task may
\* take a step whenever it can.  The server is one that accepts or rejects
\* an exchange with a complete body and answers every API request with 200.
ConcTokenResponse ==
    { r \in TokenResponse(FreshToken(access_token), FreshToken(refresh_token)) :
        /\ r.kind = "http"
        /\ r.status \in {200, 401}
        /\ r.body = "json"
        /\ r.status = 200 => r.access_token # None /\ r.refresh_token # None }

ConcApiResponse(op) ==
    { r \in ApiResponse(op) :
        /\ r.kind = "http"
        /\ r.status = 200
        /\ r.body = NoDoorBody }

ConcTokenReply(t) == TokenReplyFrom(t, ConcTokenResponse)

ConcApiReply(t) == ApiReplyFrom(t, ConcApiResponse(task[t].op))

ConcStep(t) ==
    \/ \E op \in {"get_pairings", "open_door"} : StartCall(t, op)
    \/ ConcTokenReply(t)
    \/ AuthHandle(t)
    \/ RefreshHandle(t)
    \/ ConcApiReply(t)
    \/ ApiHandle(t)
    \/ Return(t)

ConcNext ==
    \/ Tick
    \/ LoadTokens
    \/ \E t \in Tasks : ConcStep(t)

ConcSpec == Init /\ [][ConcNext]_vars

\* ---------------------------------------------- the host-facing operations

\* A task that starts the host-facing operation `host` in the client method
\* `op`.
\* FermaxBlueDoorButton.available
available(at) == at # None

HostTask(host, op) == [IdleTask EXCEPT !.op = op, !.host = host]

\* The host calls FermaxBlueIntegration.update_data().
StartUpdateData(t) ==
    /\ task[t].pc = "idle"
    /\ kind = "Integration"
    /\ task' = [task EXCEPT ![t] =
                  ensure_begin(kind, HostTask("update_data", "get_pairings"),
                               access_token, refresh_token, token_expires_at, now)]
    /\ fresh' = FALSE
    /\ UNCHANGED <<kind, access_token, refresh_token, token_expires_at,
                   pairings, now>>

\* Mutant of StartCoordinatorUpdate: the coordinator authenticates before
\* every update.
StartCoordinatorUpdateEager(t) ==
    /\ task[t].pc = "idle"
    /\ kind = "Integration"
    /\ task' = [task EXCEPT ![t] =
                  SendAuth(HostTask("_async_update_data", "authenticate"),
                           "host_auth", "plain")]
    /\ fresh' = FALSE
    /\ UNCHANGED <<kind, access_token, refresh_token, token_expires_at,
                   pairings, now>>

\* The DataUpdateCoordinator runs _async_update_data (the first refresh of
\* async_setup_entry, then every 15 minutes): authenticate() when the token
\* needs refresh, then update_data().
StartCoordinatorUpdate(t) ==
    /\ task[t].pc = "idle"
    /\ kind = "Integration"
    /\ task' = [task EXCEPT ![t] =
                  IF NeedsRefresh
                  THEN SendAuth(HostTask("_async_update_data", "authenticate"),
                                "host_auth", "plain")
                  ELSE ensure_begin(kind, HostTask("_async_update_data", "get_pairings"),
                                    access_token, refresh_token, token_expires_at, now)]
    /\ fresh' = FALSE
    /\ UNCHANGED <<kind, access_token, refresh_token, token_expires_at,
                   pairings, now>>

\* The host calls FermaxBlueIntegration.setup_integration(): authenticate(),
\* then get_pairings().
StartSetupIntegration(t) ==
    /\ task[t].pc = "idle"
    /\ kind = "Integration"
    /\ task' = [task EXCEPT ![t] =
                  SendAuth(HostTask("setup_integration", "authenticate"),
                           "host_auth", "plain")]
    /\ fresh' = FALSE
    /\ UNCHANGED <<kind, access_token, refresh_token, token_expires_at,
                   pairings, now>>

\* The user presses a door button: async_press awaits open_door().
StartPress(t) ==
    /\ task[t].pc = "idle"
    /\ kind = "Integration"
    /\ task' = [task EXCEPT ![t] =
                  ensure_begin(kind, HostTask("async_press", "open_door"),
                               access_token, refresh_token, token_expires_at, now)]
    /\ fresh' = FALSE
    /\ UNCHANGED <<kind, access_token, refresh_token, token_expires_at,
                   pairings, now>>

\* The user submits the config form: validate_input builds a new
\* FermaxBlueAPI and awaits authenticate(), then get_pairings().
StartConfigFlow(t) ==
    /\ task[t].pc = "idle"
    /\ kind = "API"
    /\ access_token' = None
    /\ refresh_token' = None
    /\ token_expires_at' = NoValue
    /\ pairings' = EmptyPairings
    /\ task' = [task EXCEPT ![t] =
                  SendAuth(HostTask("config_flow", "authenticate"),
                           "host_auth", "plain")]
    /\ fresh' = FALSE
    /\ UNCHANGED <<kind, now>>

\* Store.async_save has returned: after the first save _async_update_data
\* awaits update_data, after the second it returns the pairings.
SaveDone(t) ==
    /\ task[t].pc = "save_wait"
    /\ task' = [task EXCEPT ![t] =
                  IF task[t].op = "authenticate"
                  THEN ensure_begin(kind,
                                    [task[t] EXCEPT !.op = "get_pairings",
                                                    !.cont = "direct"],
                                    access_token, refresh_token, token_expires_at, now)
                  ELSE [task[t] EXCEPT !.pc = "done",
                                       !.outcome = async_update_data_result(task[t])]]
    /\ UNCHANGED <<kind, access_token, refresh_token, token_expires_at,
                   pairings, now, fresh>>

HostStep(t) ==
    \/ StartUpdateData(t)
    \/ StartCoordinatorUpdate(t)
    \/ StartSetupIntegration(t)
    \/ StartPress(t)
    \/ StartConfigFlow(t)
    \/ TokenReply(t)
    \/ AuthHandle(t)
    \/ RefreshHandle(t)
    \/ ApiReply(t)
    \/ ApiHandle(t)
    \/ SaveDone(t)
    \/ Return(t)

HostNext ==
    \/ Tick
    \/ LoadTokens
    \/ HostStep(MainTask)

\* The host drives the client through its host-facing operations, one at a
\* time.
HostSpec == Init /\ [][HostNext]_vars

\* The coordinator's periodic update and a button press are separate
\* asyncio tasks on the one client: either may take a step whenever it can.
\* The server is the one of ConcSpec.
CoordinatorTask == MainTask

PressTask == CHOOSE t \in Tasks : t # CoordinatorTask

ConcHostStep(t) ==
    \/ t = CoordinatorTask /\ StartCoordinatorUpdate(t)
    \/ t = PressTask /\ StartPress(t)
    \/ ConcTokenReply(t)
    \/ AuthHandle(t)
    \/ ConcApiReply(t)
    \/ ApiHandle(t)
    \/ SaveDone(t)
    \/ Return(t)

ConcHostNext ==
    \/ Tick
    \/ LoadTokens
    \/ \E t \in Tasks : ConcHostStep(t)

ConcHostSpec == Init /\ [][ConcHostNext]_vars

\* A server that accepts the credentials: every password grant is answered
\* 200 with an access token and no expires_in (an hour, by the client's
\* default); a refresh_token grant is refused, left unanswered or answered
\* 200 with an access token.
LiveTokenResponse(t) ==
    { r \in TokenResponse(FreshToken(access_token), FreshToken(refresh_token)) :
        IF task[t].pc = "auth_wait"
        THEN /\ r.kind = "http"
             /\ r.status = 200
             /\ r.body = "json"
             /\ r.access_token # None
             /\ r.expires_in = NoValue
        ELSE (r.kind = "http" /\ r.status = 200)
                => (r.body = "json" /\ r.access_token # None) }

\* The same server answers a request with 200, except that it may have
\* revoked a token the client held before the call: the request a call
\* sends without a token exchange before it may be answered 401.
LiveApiResponse(t) ==
    { r \in ApiResponse(task[t].op) :
        /\ r.kind = "http"
        /\ \/ r.status = 200
           \/ /\ r.status = 401
              /\ task[t].cont = "direct"
              /\ task[t].depth = 0 }

LiveTokenReply(t) == TokenReplyFrom(t, LiveTokenResponse(t))

LiveApiReply(t) == ApiReplyFrom(t, LiveApiResponse(t))

\* What a call in flight does next: every request is answered or times out
\* after DEFAULT_TIMEOUT seconds, and the event loop resumes the coroutine
\* whose answer has arrived.
Progress(t) ==
    \/ LiveTokenReply(t)
    \/ AuthHandle(t)
    \/ RefreshHandle(t)
    \/ LiveApiReply(t)
    \/ ApiHandle(t)

LiveNext ==
    \/ Tick
    \/ LoadTokens
    \/ StartCall(MainTask, "get_pairings")
    \/ Progress(MainTask)
    \/ Return(MainTask)

LiveSpec == Init /\ [][LiveNext]_vars /\ WF_vars(Progress(MainTask))

\* The derived views of the stored pairings.  get_door_devices and
\* get_home_info are synchronous: each is one step.
\* Mutant of GetDoorDevices: the call consumes the stored pairings.
GetDoorDevicesConsuming(t) ==
    /\ task[t].pc = "idle"
    /\ task' = [task EXCEPT ![t] =
                  [Finish([IdleTask EXCEPT !.op = "get_door_devices"], "doors",
                          EmptyPairings)
                   EXCEPT !.value = get_door_devices(kind, PairingsOf(pairings))]]
    /\ pairings' = EmptyPairings
    /\ UNCHANGED <<kind, access_token, refresh_token, token_expires_at,
                   now, fresh>>

GetDoorDevices(t) ==
    /\ task[t].pc = "idle"
    /\ task' = [task EXCEPT ![t] =
                  [Finish([IdleTask EXCEPT !.op = "get_door_devices"], "doors",
                          EmptyPairings)
                   EXCEPT !.value = get_door_devices(kind, PairingsOf(pairings))]]
    /\ UNCHANGED <<kind, access_token, refresh_token, token_expires_at,
                   pairings, now, fresh>>

GetHomeInfo(t) ==
    /\ task[t].pc = "idle"
    /\ task' = [task EXCEPT ![t] =
                  [Finish([IdleTask EXCEPT !.op = "get_home_info"], "info",
                          EmptyPairings)
                   EXCEPT !.value = get_home_info(PairingsOf(pairings))]]
    /\ UNCHANGED <<kind, access_token, refresh_token, token_expires_at,
                   pairings, now, fresh>>

\* A client that holds the pairings of an earlier successful get_pairings,
\* with or without a token pair, and whose callers read the derived views.
DoorInit ==
    /\ kind \in {"Integration", "API"}
    /\ \/ /\ access_token = None
          /\ refresh_token = None
          /\ token_expires_at = NoValue
       \/ /\ access_token = "tokA"
          /\ refresh_token = "tokB"
          /\ token_expires_at = DefaultExpiresIn
    /\ pairings \in DoorPayloads
    /\ now = 0
    /\ fresh = FALSE
    /\ task = [t \in Tasks |-> IdleTask]

DoorStep(t) ==
    \/ GetDoorDevices(t)
    \/ GetHomeInfo(t)
    \/ Return(t)

DoorNext == \E t \in Tasks : DoorStep(t)

DoorSpec == DoorInit /\ [][DoorNext]_vars

\* ================================================================== claims

InCall(t, op) == task[t].op = op

\* A call that ended without a result of value: [] / False, or an exception.
Failed(t) ==
    /\ task[t].pc = "done"
    /\ \/ task[t].result \in {"False", "AuthError", "ConnError", "APIError"}
       \/ task[t].result = "list" /\ task[t].payload = EmptyPairings

\* C1: one get_pairings call re-issues its GET at most once, and a second
\* 401 ends the call with a failure: once two 401 answers have been
\* handled the call is over (failed) and no third GET has been sent.
C1_SecondUnauthorizedIsTerminal ==
    \A t \in Tasks :
        InCall(t, "get_pairings") =>
            /\ task[t].sent <= 2
            /\ task[t].n401 >= 2 => Failed(t)

\* C2: one open_door call sends the directed-opendoor POST at most twice.
C2_OpenDoorAtMostTwoPosts ==
    \A t \in Tasks : InCall(t, "open_door") => task[t].sent <= 2

\* C3: a get_pairings or open_door call retries after re-authentication at
\* most once: it never calls itself a second time.
C3_AtMostOneRetryPerCall ==
    \A t \in Tasks :
        task[t].op \in {"get_pairings", "open_door"} => task[t].depth <= 1

\* C4: at most one OAuth token exchange is in flight at any time, whatever
\* operations run concurrently on the client.
C4_SingleFlightRefresh ==
    Cardinality({ t \in Tasks : task[t].pc \in {"auth_wait", "refresh_wait"} }) <= 1

\* C5: a get_pairings call that got 401 on its first GET and a payload on
\* the retried GET returns that payload, and has re-authenticated exactly
\* once since the 401.
C5_OneReauthenticationPer401 ==
    \A t \in Tasks :
        ( /\ InCall(t, "get_pairings")
          /\ task[t].pc = "done"
          /\ task[t].n401 = 1
          /\ task[t].sent = 2
          /\ task[t].result = "list"
          /\ task[t].payload # EmptyPairings )
        => /\ task[t].reauths = 1
           /\ task[t].payload = pairings

\* C6: _needs_refresh() is true exactly when the access token is absent,
\* or the expiry is absent, or now >= expires_at - 5 minutes; with a token
\* held and more than 5 minutes left it is false.
C6_NeedsRefreshIsBufferTest ==
    /\ NeedsRefresh <=> \/ access_token = None
                        \/ token_expires_at = NoValue
                        \/ now >= token_expires_at - BufferSeconds
    /\ ( /\ access_token # None
         /\ token_expires_at # NoValue
         /\ token_expires_at - now > BufferSeconds ) => ~NeedsRefresh

\* A token is held with 5 minutes and one second left: no refresh needed.
C6_Witness ==
    /\ access_token # None
    /\ token_expires_at = now + BufferSeconds + 1
    /\ ~NeedsRefresh

\* The step in which task t's call to get_pairings / open_door runs its
\* token check (the call begins).
BeginsCall(t) ==
    /\ task[t].pc = "idle"
    /\ task'[t].op \in {"get_pairings", "open_door"}

\* C7: when _needs_refresh() is false the token check is a no-op: no token
\* exchange is sent, the TokenState is left alone and the API request goes
\* out; when it is true a token exchange is sent, the refresh_token grant
\* exactly when the client is FermaxBlueAPI and holds a refresh token, else
\* the password grant.
C7_EnsureAuthNoOpWhenValid ==
    [][ \A t \in Tasks :
          BeginsCall(t) =>
            /\ ~NeedsRefresh =>
                 /\ task'[t].pc = "api_wait"
                 /\ task'[t].bearer = access_token
                 /\ UNCHANGED tokvars
            /\ NeedsRefresh =>
                 /\ task'[t].pc \in {"auth_wait", "refresh_wait"}
                 /\ task'[t].pc = "refresh_wait"
                      <=> (kind = "API" /\ refresh_token # None)
      ]_vars

\* A call sent its API request without any token exchange before it.
C7_Witness ==
    \E t \in Tasks :
        /\ task[t].op \in {"get_pairings", "open_door"}
        /\ task[t].pc = "api_wait"
        /\ task[t].cont = "direct"
        /\ task[t].depth = 0
        /\ task[t].bearer = access_token
        /\ ~NeedsRefresh

\* C8: if access_token is present then token_expires_at is present.
C8_TokenHasExpiry ==
    access_token # None => token_expires_at # NoValue

\* The step in which task t's authenticate() handles the answer to its
\* password grant, and the one in which refresh_auth() handles the answer
\* to its refresh_token grant.
HandlesAuth(t) == task[t].pc = "auth_got" /\ task'[t] # task[t]

HandlesRefresh(t) == task[t].pc = "refresh_got" /\ task'[t] # task[t]

\* authenticate() succeeds on a 200 answer (FermaxBlueAPI: one that carries
\* an access token); the refresh_token grant succeeds on a 200 answer.
AuthenticateSucceeds(r) ==
    /\ r.kind = "http"
    /\ r.status = 200
    /\ r.body = "json"
    /\ kind = "API" => r.access_token # None

RefreshSucceeds(r) == r.kind = "http" /\ r.status = 200 /\ r.body = "json"

\* C9 as claimed: every successful authenticate or refresh_auth sets all
\* three TokenState fields from that one response.
C9_WholesaleReplace ==
    [][ \A t \in Tasks :
          \/ HandlesAuth(t) /\ AuthenticateSucceeds(task[t].inbox)
          \/ HandlesRefresh(t) /\ RefreshSucceeds(task[t].inbox)
          => /\ access_token' = task[t].inbox.access_token
             /\ refresh_token' = task[t].inbox.refresh_token
             /\ token_expires_at' = now + expires_in_of(task[t].inbox)
      ]_vars

\* C9 as amended: every successful authenticate sets all three fields from
\* its response; a successful refresh_token grant sets access_token and
\* token_expires_at from its response, and refresh_token too when the
\* response carries one, else it keeps the refresh token held.
C9_ReplaceKeepingRefreshToken ==
    [][ \A t \in Tasks :
          /\ HandlesAuth(t) /\ AuthenticateSucceeds(task[t].inbox)
               => /\ access_token' = task[t].inbox.access_token
                  /\ refresh_token' = task[t].inbox.refresh_token
                  /\ token_expires_at' = now + expires_in_of(task[t].inbox)
          /\ HandlesRefresh(t) /\ RefreshSucceeds(task[t].inbox)
               => /\ access_token' = task[t].inbox.access_token
                  /\ refresh_token' = IF task[t].inbox.refresh_token # None
                                      THEN task[t].inbox.refresh_token
                                      ELSE refresh_token
                  /\ token_expires_at' = now + expires_in_of(task[t].inbox)
      ]_vars

\* A refresh_auth() call returned True and the client holds a token pair
\* with an expiry.
C9_Witness ==
    \E t \in Tasks :
        /\ task[t].op = "refresh_auth"
        /\ task[t].pc = "done"
        /\ task[t].result = "True"
        /\ access_token # None
        /\ refresh_token # None
        /\ token_expires_at = now + DefaultExpiresIn

\* C10: an authenticate call that fails leaves access_token, refresh_token
\* and token_expires_at as they were.
C10_FailedAuthenticateKeepsTokens ==
    [][ \A t \in Tasks :
          HandlesAuth(t) /\ ~AuthenticateSucceeds(task[t].inbox)
          => UNCHANGED tokvars
      ]_vars

\* C11 as claimed: authenticate handling HTTP 200 with expires_in = n sets
\* token_expires_at to the current time + n seconds, with n = 3600 when the
\* response has no expires_in field.
C11_ExpiryFromExpiresIn ==
    [][ \A t \in Tasks :
          ( /\ HandlesAuth(t)
            /\ task[t].inbox.kind = "http"
            /\ task[t].inbox.status = 200
            /\ task[t].inbox.body = "json" )
          => token_expires_at' = now + ( IF task[t].inbox.expires_in = NoValue
                                         THEN 3600
                                         ELSE task[t].inbox.expires_in )
      ]_vars

\* C11 as amended: an authenticate that succeeds on HTTP 200 with
\* expires_in = n sets token_expires_at to the current time + n seconds,
\* with n = 3600 when the response has no expires_in field.
C11_ExpiryFromExpiresInOnSuccess ==
    [][ \A t \in Tasks :
          HandlesAuth(t) /\ AuthenticateSucceeds(task[t].inbox)
          => token_expires_at' = now + ( IF task[t].inbox.expires_in = NoValue
                                         THEN 3600
                                         ELSE task[t].inbox.expires_in )
      ]_vars

\* An authenticate() call returned True on a response with expires_in = 300,
\* after the clock had advanced.
C11_Witness ==
    \E t \in Tasks :
        /\ task[t].op = "authenticate"
        /\ task[t].pc = "done"
        /\ task[t].result = "True"
        /\ now > 0
        /\ \E n \in ExpiresInValues : token_expires_at = now + n

\* The outcome of the authenticate() call task t is in reaches the caller
\* (it is not the call refresh_auth makes inside its try block).
AuthOutcomeVisible(t) == task[t].stage # "inner"

\* C12: FermaxBlueAPI.authenticate receiving HTTP 400 or 401 fails with
\* FermaxBlueAuthError, whatever the response body is.
C12_RejectedIsInvalidCredentials ==
    [][ \A t \in Tasks :
          ( /\ kind = "API"
            /\ HandlesAuth(t)
            /\ AuthOutcomeVisible(t)
            /\ task[t].inbox.kind = "http"
            /\ task[t].inbox.status \in {400, 401} )
          => /\ task'[t].pc = "done"
             /\ task'[t].result = "AuthError"
      ]_vars

\* C13: FermaxBlueAPI.authenticate receiving a status other than 200, 400
\* and 401, or no answer (timeout, transport failure), fails with
\* FermaxBlueConnectionError, never with FermaxBlueAuthError.
C13_OtherFailuresAreUnavailable ==
    [][ \A t \in Tasks :
          ( /\ kind = "API"
            /\ HandlesAuth(t)
            /\ AuthOutcomeVisible(t)
            /\ \/ task[t].inbox.kind \in Failures
               \/ /\ task[t].inbox.kind = "http"
                  /\ task[t].inbox.status \notin {200, 400, 401} )
          => /\ task'[t].pc = "done"
             /\ task'[t].result = "ConnError"
      ]_vars

\* FermaxBlueAPI.authenticate raised FermaxBlueConnectionError quoting the
\* status 500.
C13_Witness ==
    \E t \in Tasks :
        /\ kind = "API"
        /\ task[t].op = "authenticate"
        /\ task[t].pc = "done"
        /\ task[t].result = "ConnError"
        /\ task[t].detail = ErrorDetail("HTTP", 500)

\* C14: refresh_auth called while no refresh token is held sends no
\* refresh_token grant but the password grant, and on the answer it leaves
\* the TokenState and the outcome that authenticate, called directly, leaves
\* on the same answer.
C14_RefreshWithoutTokenIsAuthenticate ==
    [][ \A t \in Tasks :
          /\ ( /\ task[t].pc = "idle"
               /\ task'[t].op = "refresh_auth"
               /\ refresh_token = None )
             => /\ task'[t].pc = "auth_wait"
                /\ UNCHANGED tokvars
          /\ ( /\ task[t].pc # "refresh_wait"
               /\ task'[t].pc = "refresh_wait" )
             => refresh_token' # None
          /\ ( /\ HandlesAuth(t)
               /\ task[t].op = "refresh_auth"
               /\ task[t].stage = "plain" )
             => LET e == authenticate(kind, task[t].inbox, access_token,
                                      refresh_token, token_expires_at, now)
                    direct == after_auth(kind, [task[t] EXCEPT !.op = "authenticate"],
                                         e.out, e.err, e.at, e.rt, e.exp, now)
                IN /\ access_token' = e.at
                   /\ refresh_token' = e.rt
                   /\ token_expires_at' = e.exp
                   /\ task'[t] = [direct EXCEPT !.op = "refresh_auth"]
                   /\ task'[t].pc = "done"
      ]_vars

\* A refresh_auth() call made without a refresh token returned True on a
\* password-grant answer that carried no refresh token.
C14_Witness ==
    \E t \in Tasks :
        /\ task[t].op = "refresh_auth"
        /\ task[t].pc = "done"
        /\ task[t].result = "True"
        /\ access_token # None
        /\ refresh_token = None

\* C15: when the refresh_token grant of refresh_auth is answered with a
\* non-200 status, refresh_auth makes one password-grant authenticate and
\* ends with that authenticate's outcome.
C15_RejectedRefreshFallsBackOnce ==
    [][ \A t \in Tasks :
          /\ ( /\ HandlesRefresh(t)
               /\ task[t].inbox.kind = "http"
               /\ task[t].inbox.status # 200 )
             => /\ task'[t].pc = "auth_wait"
                /\ UNCHANGED tokvars
          /\ ( /\ HandlesAuth(t)
               /\ task[t].stage = "inner"
               /\ task[t].cont = "direct" )
             => LET e == authenticate(kind, task[t].inbox, access_token,
                                      refresh_token, token_expires_at, now)
                IN /\ task'[t].pc = "done"
                   /\ task'[t].result = e.out
      ]_vars

\* The step in which task t's get_pairings / open_door handles the answer
\* to its GET / POST.
HandlesApi(t) == task[t].pc = "api_got" /\ task'[t] # task[t]

\* C16: in FermaxBlueAPI, get_pairings and open_door receiving a status
\* other than 200 and 401 end with the request-failed error
\* (FermaxBlueAPIError itself, neither the unreachable nor the
\* authentication error) quoting the status, with no retry and no
\* re-authentication.
C16_OtherStatusIsRequestFailed ==
    [][ \A t \in Tasks :
          ( /\ kind = "API"
            /\ HandlesApi(t)
            /\ task[t].inbox.kind = "http"
            /\ task[t].inbox.status \notin {200, 401} )
          => /\ task'[t].pc = "done"
             /\ task'[t].result = "APIError"
             /\ task'[t].detail.status = task[t].inbox.status
             /\ task'[t].sent = task[t].sent
             /\ task'[t].reauths = task[t].reauths
             /\ UNCHANGED tokvars
      ]_vars

\* C17: in FermaxBlueAPI, a GET / POST of get_pairings / open_door that
\* gets no answer (timeout, transport failure) ends the call with
\* FermaxBlueConnectionError; nothing is sent again.
C17_NoAnswerIsUnreachable ==
    [][ \A t \in Tasks :
          ( /\ kind = "API"
            /\ HandlesApi(t)
            /\ task[t].inbox.kind \in Failures )
          => /\ task'[t].pc = "done"
             /\ task'[t].result = "ConnError"
             /\ task'[t].sent = task[t].sent
             /\ task'[t].reauths = task[t].reauths
             /\ UNCHANGED tokvars
      ]_vars

\* FermaxBlueAPI.open_door raised FermaxBlueConnectionError because its one
\* POST timed out.
C17_Witness ==
    \E t \in Tasks :
        /\ kind = "API"
        /\ task[t].op = "open_door"
        /\ task[t].pc = "done"
        /\ task[t].result = "ConnError"
        /\ task[t].detail = failure_detail("timeout")
        /\ task[t].sent = 1
        /\ task[t].n401 = 0

\* C18: open_door receiving HTTP 200 returns True when the body contains
\* an affirmative token and no negative one, False when it contains a
\* negative token and no affirmative one, and True when it contains
\* neither.
C18_DoorBodyDecidesResult ==
    [][ \A t \in Tasks :
          ( /\ HandlesApi(t)
            /\ task[t].op = "open_door"
            /\ task[t].inbox.kind = "http"
            /\ task[t].inbox.status = 200 )
          => LET b == task[t].inbox.body
             IN /\ task'[t].pc = "done"
                /\ (b.aff /\ ~b.neg) => task'[t].result = "True"
                /\ (b.neg /\ ~b.aff) => task'[t].result = "False"
                /\ (~b.aff /\ ~b.neg) => task'[t].result = "True"
      ]_vars

\* The entries of the pairings list ps that are to become doors: <<i, j>>
\* is the j-th entry of the i-th pairing's access-door map, and its visible
\* flag is true or absent.
MapOf(ps, i) == dict_get(ps[i], "accessDoorMap", <<>>)

VisibleEntries(ps) ==
    { e \in (1..Len(ps)) \X (1..2) :
        /\ e[2] <= Len(MapOf(ps, e[1]))
        /\ LET data == MapOf(ps, e[1])[e[2]].data
           IN "visible" \notin DOMAIN data \/ data.visible = TRUE }

\* Door d is the door the mapping rule derives from entry j of pairing i:
\* the display name is asked for when the pairing has a tag, the AccessId
\* when the entry has a complete accessId.
IsDoorOf(d, ps, i, j) ==
    LET entry == MapOf(ps, i)[j]
        title == IF "title" \in DOMAIN entry.data
                 THEN entry.data.title
                 ELSE "Door " \o entry.key
    IN /\ d.id = ps[i].deviceId \o "_" \o entry.key
       /\ "tag" \in DOMAIN ps[i] => d.name = ps[i].tag \o " " \o title
       /\ ( /\ "accessId" \in DOMAIN entry.data
            /\ DOMAIN entry.data.accessId = {"block", "subblock", "number"} )
          => d.access_id = entry.data.accessId

\* C19: get_door_devices returns exactly one door per access-door-map
\* entry whose visible flag is true or absent and none for the others;
\* each door has id deviceId_doorKey, name "<tag> <title>" (title falling
\* back to "Door <doorKey>") and the entry's block / subblock / number.
C19_OneDoorPerVisibleEntry ==
    \A t \in Tasks :
        (task[t].pc = "done" /\ task[t].op = "get_door_devices")
        => LET ps == PairingsOf(pairings)
               doors == task[t].value
           IN /\ Len(doors) = Cardinality(VisibleEntries(ps))
              /\ \A e \in VisibleEntries(ps) :
                    \E n \in 1..Len(doors) :
                        /\ IsDoorOf(doors[n], ps, e[1], e[2])
                        /\ \A m \in 1..Len(doors) :
                              doors[m].id = doors[n].id => m = n

\* The step in which task t calls get_door_devices or get_home_info.
CallsView(t) ==
    /\ task[t].pc = "idle"
    /\ task'[t].op \in {"get_door_devices", "get_home_info"}

\* C20: get_door_devices and get_home_info send no request, return at once
\* and leave the stored pairings and the TokenState unchanged; two calls of
\* the same one over the same stored pairings return the same value.
C20_ViewsArePure ==
    /\ [][ \A t \in Tasks :
              CallsView(t) => /\ task'[t].pc = "done"
                              /\ task'[t].sent = 0
                              /\ UNCHANGED <<pairings, tokvars>>
          ]_vars
    /\ [] ( \A t, u \in Tasks :
              ( /\ task[t].pc = "done"
                /\ task[u].pc = "done"
                /\ task[t].op = task[u].op
                /\ task[t].op \in {"get_door_devices", "get_home_info"} )
              => task[t].value = task[u].value )

\* Two callers hold the result of get_door_devices over pairings with two
\* intercoms, on a client with a token pair.
C20_Witness ==
    /\ access_token # None
    /\ Len(PairingsOf(pairings)) = 2
    /\ \A t \in Tasks :
          /\ task[t].pc = "done"
          /\ task[t].op = "get_door_devices"
          /\ Len(task[t].value) >= 2

\* C21: get_home_info returns the id and the home name of the first pairing
\* of the stored list, and the fallback (id "unknown", name "Fermax Blue
\* Home") when the list is empty.
C21_HomeInfoOfFirstPairing ==
    \A t \in Tasks :
        (task[t].pc = "done" /\ task[t].op = "get_home_info")
        => LET ps == PairingsOf(pairings)
               info == task[t].value
           IN IF ps = <<>>
              THEN info.id = "unknown" /\ info.name = "Fermax Blue Home"
              ELSE /\ "id" \in DOMAIN ps[1] => info.id = ps[1].id
                   /\ "home" \in DOMAIN ps[1] => info.name = ps[1].home

\* get_home_info returned the first pairing's id and home over a list of two
\* pairings.
C21_Witness ==
    \E t \in Tasks :
        /\ task[t].pc = "done"
        /\ task[t].op = "get_home_info"
        /\ Len(PairingsOf(pairings)) = 2
        /\ task[t].value.id = "P1"
        /\ task[t].value.name = "Casa"

\* C22: the stored pairings change only in the step in which a get_pairings
\* call handles a 200 answer, and then become that answer's list; no step
\* of a failing get_pairings, of open_door, authenticate, refresh_auth or
\* the token loading changes them.
C22_PairingsReplacedOnlyOn200 ==
    [][ pairings' # pairings
        => \E t \in Tasks :
              /\ HandlesApi(t)
              /\ task[t].op = "get_pairings"
              /\ task[t].inbox.kind = "http"
              /\ task[t].inbox.status = 200
              /\ pairings' = task[t].inbox.payload
      ]_vars

\* A get_pairings call has failed after an earlier one had stored a list:
\* the list is still there.
C22_Witness ==
    \E t \in Tasks :
        /\ task[t].op = "get_pairings"
        /\ Failed(t)
        /\ task[t].sent >= 1
        /\ pairings # EmptyPairings

C30_RequestsCarryAToken ==
    \A t \in Tasks : task[t].pc = "api_wait" => task[t].bearer # None

\* Task t has ended the host-facing operation `host`.
Ended(t, host) == task[t].pc = "done" /\ task[t].host = host

\* The get_pairings call of task t sent its GET and ended without the
\* pairings: the request got a non-200 status, a repeated 401 or no answer.
PairingsRequestFailed(t) ==
    /\ task[t].pc = "done"
    /\ task[t].op = "get_pairings"
    /\ task[t].sent >= 1
    /\ task[t].result # "list" \/ task[t].payload = EmptyPairings

\* C23: when the get_pairings request of an update failed, update_data does
\* not return True and _async_update_data does not return pairings data.
C23_FailedUpdateIsNotSuccess ==
    \A t \in Tasks :
        PairingsRequestFailed(t)
        => /\ Ended(t, "update_data") => task[t].outcome # "True"
           /\ Ended(t, "_async_update_data") => task[t].outcome # "data"

\* C24: the config flow creates the entry only when authenticate succeeded;
\* FermaxBlueAuthError is reported as invalid_auth and every other failure
\* of authenticate as cannot_connect or unknown.
C24_EntryOnlyAfterAuthenticate ==
    \A t \in Tasks :
        (Ended(t, "config_flow") /\ task[t].op = "authenticate")
        => /\ task[t].outcome # "entry"
           /\ task[t].result = "AuthError" => task[t].outcome = "invalid_auth"
           /\ task[t].result # "AuthError"
                => task[t].outcome \in {"cannot_connect", "unknown"}

\* C25: authenticate, get_pairings, open_door, update_data and
\* setup_integration of FermaxBlueIntegration end with a value (True, False
\* or a list), never with an exception, whatever the server answers.
C25_IntegrationReturnsValues ==
    \A t \in Tasks :
        (kind = "Integration" /\ task[t].pc = "done")
        => /\ task[t].result \in {"True", "False", "list"}
           /\ task[t].detail = NoDetail
           /\ task[t].host \in {"update_data", "setup_integration"}
                => task[t].outcome \in {"True", "False"}

\* update_data ended after the GET of its get_pairings got no answer or a
\* failure status.
C25_Witness ==
    \E t \in Tasks :
        /\ kind = "Integration"
        /\ Ended(t, "update_data")
        /\ task[t].sent = 1
        /\ task[t].n401 = 0
        /\ task[t].result = "list"
        /\ task[t].payload = EmptyPairings

\* The step in which the coordinator starts an update on task t.
StartsCoordinatorUpdate(t) ==
    /\ task[t].pc = "idle"
    /\ task'[t].host = "_async_update_data"

\* C27: a coordinator update that starts while the client holds a token
\* whose expiry is more than 5 minutes ahead (the first refresh after setup
\* restored such a token included) sends the pairings GET with that token
\* and no token exchange before it.
C27_RestoredTokenIsUsed ==
    [][ \A t \in Tasks :
          ( /\ StartsCoordinatorUpdate(t)
            /\ access_token # None
            /\ token_expires_at # NoValue
            /\ token_expires_at - now > BufferSeconds )
          => /\ task'[t].pc = "api_wait"
             /\ task'[t].op = "get_pairings"
             /\ task'[t].sent = 1
             /\ task'[t].bearer = access_token
             /\ UNCHANGED tokvars
      ]_vars

\* The first refresh has sent its GET with a restored token: an expiry of
\* StoredInstants at instant 0 can only have been loaded.
C27_Witness ==
    \E t \in Tasks :
        /\ task[t].host = "_async_update_data"
        /\ task[t].pc = "api_wait"
        /\ task[t].sent = 1
        /\ task[t].reauths = 0
        /\ now = 0
        /\ token_expires_at \in StoredInstants
        /\ task[t].bearer = access_token
        /\ access_token # None

\* C28: a button press ends normally only if open_door returned True; when
\* open_door returned False async_press raises HomeAssistantError.
C28_PressFailsUnlessOpened ==
    \A t \in Tasks :
        Ended(t, "async_press")
        => /\ task[t].outcome = "ok" => task[t].result = "True"
           /\ task[t].result = "False" => task[t].outcome = "HomeAssistantError"

\* A press raised HomeAssistantError after its one POST was answered with a
\* failure (a status, a negative body or no answer).
C28_Witness ==
    \E t \in Tasks :
        /\ Ended(t, "async_press")
        /\ task[t].sent = 1
        /\ task[t].n401 = 0
        /\ task[t].result = "False"
        /\ task[t].outcome = "HomeAssistantError"

SendsPasswordGrant(t) ==
    /\ task'[t].op = "refresh_auth"
    /\ task'[t].pc = "auth_wait"
    /\ task[t].pc # "auth_wait"

\* Task t, running refresh_auth, sends a refresh_token grant in this step.
SendsRefreshGrant(t) ==
    /\ task'[t].op = "refresh_auth"
    /\ task'[t].pc = "refresh_wait"
    /\ task[t].pc # "refresh_wait"

\* C31: one call of FermaxBlueAPI.refresh_auth sends at most one
\* refresh_token grant and at most one password grant: it sends no password
\* grant once a password grant of the call has been answered, and no
\* refresh_token grant except as its first request.
C31_RefreshAuthSendsEachGrantOnce ==
    [][ \A t \in Tasks :
          /\ SendsPasswordGrant(t) => task[t].pc # "auth_got"
          /\ SendsRefreshGrant(t) => task[t].pc = "idle"
      ]_vars

\* The TokenState e holds the three fields of the stored record d: the two
\* tokens, and the instant its token_expires_at string denotes (no expiry
\* when the record has none).  An unparsable string denotes nothing.
SetFromRecord(d, e) ==
    /\ d.form = "record"
    /\ d.token_expires_at.form # "bad"
    /\ e.at = d.access_token
    /\ e.rt = d.refresh_token
    /\ e.exp = d.token_expires_at.t

\* C32: load_tokens, called on the new client, either sets access_token,
\* refresh_token and token_expires_at from the stored record or leaves all
\* three as they were, whatever the record is.
C32_LoadIsAllOrNothing ==
    (kind = "Integration" /\ fresh)
    => \A d \in StoredData :
          LET e == load_tokens(d, access_token, refresh_token, token_expires_at)
          IN \/ SetFromRecord(d, e)
             \/ /\ e.at = access_token
                /\ e.rt = refresh_token
                /\ e.exp = token_expires_at

\* The step in which the coordinator update of task t returns the pairings.
ReturnsData(t) ==
    /\ task[t].host = "_async_update_data"
    /\ task[t].pc = "save_wait"
    /\ task'[t].pc = "done"
    /\ task'[t].outcome = "data"

\* C33: when a coordinator update returns data, the record it last handed
\* to Store.async_save is the snapshot of the TokenState the client holds
\* at that moment.
C33_SnapshotIsTokenState ==
    [][ \A t \in Tasks :
          ReturnsData(t)
          => task'[t].saved = save_tokens(access_token', refresh_token',
                                          token_expires_at')
      ]_vars

\* C34: FermaxBlueIntegration never sends a refresh_token grant: none of its
\* calls waits for, or holds, the answer to one, whether or not a refresh
\* token is held.
C34_IntegrationOnlyPasswordGrants ==
    kind = "Integration"
    => \A t \in Tasks : task[t].pc \notin {"refresh_wait", "refresh_got"}

\* FermaxBlueIntegration holds a refresh token and, its request answered
\* 401, has sent the password grant.
C34_Witness ==
    /\ kind = "Integration"
    /\ refresh_token # None
    /\ \E t \in Tasks :
          /\ task[t].op \in {"get_pairings", "open_door"}
          /\ task[t].pc = "auth_wait"
          /\ task[t].cont = "retry"
          /\ task[t].n401 = 1

\* C35: when FermaxBlueIntegration.open_door reads a 200 answer whose body
\* contains both a success indicator and an error indicator, it returns
\* True.
C35_AffirmativeTakesPrecedence ==
    [][ \A t \in Tasks :
          ( /\ kind = "Integration"
            /\ HandlesApi(t)
            /\ task[t].op = "open_door"
            /\ task[t].inbox.kind = "http"
            /\ task[t].inbox.status = 200
            /\ task[t].inbox.body.aff
            /\ task[t].inbox.body.neg )
          => /\ task'[t].pc = "done"
             /\ task'[t].result = "True"
      ]_vars

\* open_door of FermaxBlueIntegration has sent its POST and holds a 200
\* answer whose body contains an indicator of each list.
C35_Witness ==
    \E t \in Tasks :
        /\ kind = "Integration"
        /\ task[t].op = "open_door"
        /\ task[t].pc = "api_got"
        /\ task[t].sent = 1
        /\ task[t].inbox.kind = "http"
        /\ task[t].inbox.status = 200
        /\ task[t].inbox.body.aff
        /\ task[t].inbox.body.neg

\* C37: on every answer of the token endpoint FermaxBlueAPI.authenticate
\* succeeds exactly when FermaxBlueIntegration.authenticate returns True,
\* and after a success both leave the same access_token, refresh_token and
\* expiry.
C37_ClientsAgreeOnAuthenticate ==
    \A t \in Tasks :
        task[t].pc = "auth_got"
        => LET r == task[t].inbox
               a == authenticate_api(r, access_token, refresh_token,
                                     token_expires_at, now)
               i == authenticate_integration(r, access_token, refresh_token,
                                             token_expires_at, now)
           IN /\ a.out = "True" <=> i.out = "True"
              /\ a.out = "True"
                   => /\ a.at = i.at
                      /\ a.rt = i.rt
                      /\ a.exp = i.exp

\* C38: a door button of FermaxBlueIntegration that is available stays
\* available: no step takes access_token from present to absent.
C38_AvailabilityNeverReverts ==
    [][ (kind = "Integration" /\ available(access_token))
        => available(access_token')
      ]_vars

\* Task t is inside a get_pairings call.
PairingsCallRunning(t) ==
    /\ task[t].op = "get_pairings"
    /\ task[t].pc \notin {"idle", "done"}

\* The get_pairings call of task t has returned a payload of the server,
\* which is now the stored pairings.
PairingsCallDelivered(t) ==
    /\ task[t].op = "get_pairings"
    /\ task[t].pc = "done"
    /\ task[t].result = "list"
    /\ task[t].payload \in Payloads
    /\ pairings = task[t].payload

\* C36: with a server that accepts the credentials for more than 300
\* seconds and answers the requests bearing its tokens with 200, every
\* get_pairings call eventually returns the server's payload and stores it,
\* whatever TokenState the call started from.
C36_PairingsEventuallyDelivered ==
    \A t \in Tasks : PairingsCallRunning(t) ~> PairingsCallDelivered(t)

\* A get_pairings call that started with a token the server had revoked
\* has delivered the payload after one 401 and a token exchange.
C36_Witness ==
    \E t \in Tasks :
        /\ PairingsCallDelivered(t)
        /\ task[t].n401 = 1
        /\ task[t].sent = 2
        /\ ~NeedsRefresh

====
